---- MODULE Spec2Model ----
(***************************************************************************)
(* Model of the zaparoo-core release helper scripts                        *)
(*   scripts/tasks/fetchreadme.py  (standalone README fetch)               *)
(*   scripts/tasks/makezip.py      (package builder)                       *)
(*                                                                         *)
(* Text is a sequence of characters; the characters that matter to the     *)
(* scripts are "-" (front-matter delimiter), "a" (any other printable      *)
(* character), and the whitespace characters "SP", "NL", "CR".             *)
(* A path is a sequence of components; the filesystem is a function from   *)
(* the absolute paths that exist to their nodes.                           *)
(***************************************************************************)
EXTENDS Naturals, Sequences, FiniteSets, TLC

VARIABLES script, platform, build_dir, app_bin, zip_name,
          cwd, fs, fs0, pc, outcome, raisedAt, net, resp, fm, written

vars == <<script, platform, build_dir, app_bin, zip_name,
          cwd, fs, fs0, pc, outcome, raisedAt, net, resp, fm, written>>

(***************************************************************************)
(* Bounds                                                                  *)
(***************************************************************************)
\* Largest number of lines of a fetched document (specification SpecDoc).
MaxLines == 3

(***************************************************************************)
(* Text: str.splitlines, "\n".join, str.strip                              *)
(***************************************************************************)
Whitespace == {"SP", "NL", "CR"}

Delim == <<"-", "-", "-">>

\* str.splitlines(): breaks at "\n", "\r" and "\r\n"; no empty last line.
RECURSIVE SplitFrom(_, _, _)
SplitFrom(s, i, cur) ==
  IF i > Len(s)
    THEN (IF cur = <<>> THEN <<>> ELSE <<cur>>)
    ELSE IF s[i] = "CR" /\ i < Len(s) /\ s[i + 1] = "NL"
      THEN <<cur>> \o SplitFrom(s, i + 2, <<>>)
      ELSE IF s[i] \in {"NL", "CR"}
        THEN <<cur>> \o SplitFrom(s, i + 1, <<>>)
        ELSE SplitFrom(s, i + 1, Append(cur, s[i]))

splitlines(s) == SplitFrom(s, 1, <<>>)

\* sep.join(lines)
RECURSIVE join(_, _)
join(sep, lines) ==
  IF lines = <<>> THEN <<>>
  ELSE IF Len(lines) = 1 THEN lines[1]
  ELSE lines[1] \o sep \o join(sep, Tail(lines))

RECURSIVE lstrip(_)
lstrip(s) ==
  IF s # <<>> /\ s[1] \in Whitespace THEN lstrip(Tail(s)) ELSE s

RECURSIVE rstrip(_)
rstrip(s) ==
  IF s # <<>> /\ s[Len(s)] \in Whitespace
    THEN rstrip(SubSeq(s, 1, Len(s) - 1)) ELSE s

\* Only the trailing whitespace removed.
strip_trailing(s) == rstrip(s)

\* str.strip(): leading and trailing whitespace removed.
strip(s) == rstrip(lstrip(s))

\* The index of the first closing delimiter line after line 1, or 0.
RECURSIVE FirstDelim(_, _)
FirstDelim(lines, i) ==
  IF i > Len(lines) THEN 0
  ELSE IF lines[i] = Delim THEN i
  ELSE FirstDelim(lines, i + 1)

\* strip_frontmatter(content): lines[0] raises IndexError on an empty list.
strip_frontmatter(content) ==
  LET lines == splitlines(content)
  IN  IF lines = <<>>
        THEN [called |-> TRUE, raised |-> TRUE, val |-> <<>>]
        ELSE IF lines[1] = Delim /\ FirstDelim(lines, 2) # 0
          THEN [called |-> TRUE, raised |-> FALSE,
                val |-> join(<<"NL">>, SubSeq(lines, FirstDelim(lines, 2) + 1, Len(lines)))]
          ELSE [called |-> TRUE, raised |-> FALSE, val |-> content]

NotCalled == [called |-> FALSE, raised |-> FALSE, val |-> <<>>]

(***************************************************************************)
(* Paths: os.path.join, basename, relpath; resolution against the cwd      *)
(***************************************************************************)
Rel(parts) == [abs |-> FALSE, parts |-> parts]

Abs(parts) == [abs |-> TRUE, parts |-> parts]

\* os.path.join(a, b): an absolute b discards a.
path_join(a, b) ==
  IF b.abs THEN b ELSE [abs |-> a.abs, parts |-> a.parts \o b.parts]

\* os.path.basename(p): the directory prefix is discarded.
basename(p) == Rel(<<p.parts[Len(p.parts)]>>)

\* The absolute location the operating system gives path p in directory c.
Resolve(c, p) ==
  SelectSeq(IF p.abs THEN p.parts ELSE c \o p.parts, LAMBDA x : x # ".")

IsPrefix(d, q) == Len(q) >= Len(d) /\ SubSeq(q, 1, Len(d)) = d

Suffix(d, q) == SubSeq(q, Len(d) + 1, Len(q))

\* os.path.relpath(root, start), for a root inside start.
relpath(c, root, start) == Rel(Suffix(Resolve(c, start), Resolve(c, root)))

(***************************************************************************)
(* Filesystem: os.path.isfile/isdir/exists, os.remove, shutil.copy,        *)
(* os.makedirs, shutil.copytree, os.walk                                   *)
(***************************************************************************)
DirNode == [kind |-> "dir", text |-> <<>>, entries |-> {}]

File(text) == [kind |-> "file", text |-> text, entries |-> {}]

\* A ZIP archive file holding the given entry names.
Zip(entries) == [kind |-> "file", text |-> <<"PK">>, entries |-> entries]

NoFiles == [q \in {} |-> DirNode]

exists(f, p) == p \in DOMAIN f

isfile(f, p) == p \in DOMAIN f /\ f[p].kind = "file"

isdir(f, p) == p \in DOMAIN f /\ f[p].kind = "dir"

Put(f, p, node) == (p :> node) @@ f

remove(f, p) == [q \in DOMAIN f \ {p} |-> f[q]]

\* Where shutil.copy(src, dst) writes: inside dst when dst is a directory.
CopyTarget(f, src, dst) ==
  IF isdir(f, dst) THEN dst \o <<src[Len(src)]>> ELSE dst

copy(f, src, dst) == Put(f, CopyTarget(f, src, dst), File(f[src].text))

makedirs(f, p) == Put(f, p, DirNode)

\* shutil.copytree(src, dst, dirs_exist_ok=True): the source tree is merged
\* into dst; what dst already holds stays unless the source has the same name.
copytree(f, src, dst) ==
  LET moved == {q \in DOMAIN f : IsPrefix(src, q)}
      To(q) == dst \o Suffix(src, q)
  IN  [p \in DOMAIN f \cup {To(q) : q \in moved} |->
         IF \E q \in moved : To(q) = p
           THEN f[CHOOSE q \in moved : To(q) = p]
           ELSE f[p]]

\* A listing of d itself, not descending.
walk_files_top(f, d) ==
  {q \in DOMAIN f : IsPrefix(d, q) /\ Len(q) = Len(d) + 1 /\ f[q].kind = "file"}

\* The files os.walk(d) yields, at any depth.
walk_files(f, d) == {q \in DOMAIN f : IsPrefix(d, q) /\ f[q].kind = "file"}

(***************************************************************************)
(* The static tables                                                       *)
(***************************************************************************)
base_url == "https://github.com/ZaparooProject/zaparoo.org/raw/refs/heads/main/docs/platforms/"

Doc(stem, ext) == [stem |-> stem, ext |-> ext]

\* fetchreadme.py
platform_docs_fetch ==
  [batocera |-> Doc("batocera", "mdx"), bazzite |-> Doc("bazzite", "mdx"),
   chimeraos |-> Doc("chimeraos", "mdx"), libreelec |-> Doc("libreelec", "mdx"),
   linux |-> Doc("linux", "mdx"), mac |-> Doc("mac", "mdx"),
   mister |-> Doc("mister", "md"), mistex |-> Doc("mistex", "md"),
   recalbox |-> Doc("recalbox", "mdx"), steamos |-> Doc("steamos", "md"),
   windows |-> Doc("windows/index", "md")]

\* makezip.py
platform_docs_zip ==
  [batocera |-> Doc("batocera", "md"), bazzite |-> Doc("bazzite", "mdx"),
   chimeraos |-> Doc("chimeraos", "mdx"), libreelec |-> Doc("libreelec", "mdx"),
   linux |-> Doc("linux", "mdx"), mac |-> Doc("mac", "mdx"),
   mister |-> Doc("mister", "md"), mistex |-> Doc("mistex", "md"),
   recalbox |-> Doc("recalbox", "mdx"), steamos |-> Doc("steamos", "md"),
   windows |-> Doc("windows/index", "md")]

platform_docs(s) == IF s = "fetchreadme" THEN platform_docs_fetch ELSE platform_docs_zip

extra_items == [batocera |-> <<Rel(<<"cmd", "batocera", "scripts">>)>>]

\* str.lower() on a filename extension.
lower(ext) ==
  CASE ext = "MDX" -> "mdx"
    [] ext = "Mdx" -> "mdx"
    [] ext = "MD" -> "md"
    [] OTHER -> ext

\* file_name.lower().endswith(".mdx")
IsMdx(file_name) == lower(file_name.ext) = "mdx"

(***************************************************************************)
(* download_doc                                                            *)
(***************************************************************************)
NoResp == [ok |-> FALSE, body |-> <<>>]

Body(doc) == [ok |-> TRUE, body |-> doc]

\* download_doc without its check of the platform id: the lookup fails.
download_doc_unvalidated(docs, platform_id, readme, f, r) ==
  [outcome |-> "KeyError", net |-> <<>>, fm |-> NotCalled, fs |-> f]

\* What download_doc does with filesystem f when urlopen answers r (r.ok false:
\* urlopen raises); readme is the absolute location of the file it opens.
download_doc(docs, platform_id, readme, f, r) ==
  IF platform_id \notin DOMAIN docs
    THEN [outcome |-> "ValueError", net |-> <<>>, fm |-> NotCalled, fs |-> f]
    ELSE
      LET file_name == docs[platform_id]
          url == <<base_url, file_name>>
          st == IF IsMdx(file_name) THEN strip_frontmatter(r.body) ELSE NotCalled
          content == IF st.called THEN st.val ELSE r.body
      IN  IF ~r.ok
            THEN [outcome |-> "URLError", net |-> <<url>>, fm |-> NotCalled, fs |-> f]
          ELSE IF st.raised
            THEN [outcome |-> "IndexError", net |-> <<url>>, fm |-> st, fs |-> f]
          ELSE [outcome |-> "ok", net |-> <<url>>, fm |-> st,
                fs |-> Put(f, readme, File(strip(content) \o <<"NL">>))]

(***************************************************************************)
(* Inputs: command lines and the filesystem the script starts in           *)
(***************************************************************************)
Scripts == {"fetchreadme", "makezip"}

\* Every key of the tables and one platform id that is in neither.
Platforms == DOMAIN platform_docs_fetch \cup DOMAIN platform_docs_zip \cup {"amiga"}

\* The scripts are started in the root of the repository.
InitCwd == <<"repo">>

NoDir == Rel(<<"nodir">>)

DirArgs == {Rel(<<".">>), Rel(<<"build">>), Abs(<<"repo", "build">>), NoDir}

AppBins == {Rel(<<"app.bin">>), Rel(<<"bin", "app.bin">>)}

ZipName == Rel(<<"out.zip">>)

README == Rel(<<"README.txt">>)

\* What an archive left by an earlier build holds.
StaleEntries == {Rel(<<"old.txt">>), Rel(<<"README.txt">>)}

OldReadme == <<"o", "l", "d", "NL">>

\* The documents the remote may answer with: up to MaxLines lines out of
\* LineChoices, separated by "\n" or "\r\n", with or without a final "\n".
LineChoices == {<<>>, Delim, <<"-", "-">>, <<"a">>, <<"SP", "a", "SP">>}

Docs ==
  UNION {{join(sep, ls) \o t : ls \in [1..n -> LineChoices],
                               sep \in {<<"NL">>, <<"CR", "NL">>},
                               t \in {<<>>, <<"NL">>}} : n \in 0..MaxLines}

\* The documents of specification Spec: empty, leading whitespace, front matter.
SampleDocs ==
  {<<>>, <<"SP", "a", "NL">>,
   Delim \o <<"NL", "a", "NL">> \o Delim \o <<"NL", "NL", "a", "NL">>}

Responses(docs) == {NoResp} \cup {Body(b) : b \in docs}

\* The tree registered as batocera's extra item, when it is a directory.
SrcScripts == <<"repo", "cmd", "batocera", "scripts">>

SrcTree(kind) ==
  LET up == (<<"repo", "cmd">> :> DirNode) @@ (<<"repo", "cmd", "batocera">> :> DirNode)
  IN  CASE kind = "file" -> up @@ (SrcScripts :> File(<<"script">>))
        [] kind = "dir" ->
             up @@ (SrcScripts :> DirNode)
                @@ (SrcScripts \o <<"a.sh">> :> File(<<"new-a">>))
                @@ (SrcScripts \o <<"sub">> :> DirNode)
                @@ (SrcScripts \o <<"sub", "b.sh">> :> File(<<"new-b">>))
        [] OTHER -> NoFiles

\* What the destination directory D already holds under the name "scripts".
PreTree(D, kind) ==
  CASE kind = "file" -> (D \o <<"scripts">> :> File(<<"other">>))
    [] kind = "dir" ->
         (D \o <<"scripts">> :> DirNode)
            @@ (D \o <<"scripts", "a.sh">> :> File(<<"old-a">>))
            @@ (D \o <<"scripts", "stale.sh">> :> File(<<"stale">>))
    [] OTHER -> NoFiles

Opt(present, f) == IF present THEN f ELSE NoFiles

\* The binary: a file, a directory of that name, or nothing.
AppTree(D, bin, kind) ==
  LET p == D \o bin.parts
      up == IF Len(bin.parts) > 1 THEN (D \o <<bin.parts[1]>> :> DirNode) ELSE NoFiles
  IN  CASE kind = "file" -> up @@ (p :> File(<<"binary">>))
        [] kind = "dir" -> up @@ (p :> DirNode)
        [] OTHER -> NoFiles

InitFs(d, c) ==
  LET D == Resolve(InitCwd, d)
      repo == (<<"repo">> :> DirNode)
                @@ Opt(c.licSrc, <<"repo", "LICENSE">> :> File(<<"license">>))
                @@ SrcTree(c.src)
      dest == (D :> DirNode)
                @@ Opt(c.lic, D \o <<"LICENSE.txt">> :> File(<<"old-license">>))
                @@ Opt(c.readme, D \o <<"README.txt">> :> File(OldReadme))
                @@ Opt(c.nested, (D \o d.parts :> DirNode)
                                   @@ (D \o d.parts \o <<"README.txt">> :> File(OldReadme)))
                @@ Opt(c.zip, D \o ZipName.parts :> Zip(StaleEntries))
                @@ AppTree(D, c.bin, c.app)
                @@ PreTree(D, c.pre)
  IN  IF d = NoDir THEN repo ELSE dest @@ repo

Kinds == {"none", "file", "dir"}

Choices ==
  [licSrc : BOOLEAN, lic : BOOLEAN, readme : BOOLEAN, nested : BOOLEAN, zip : BOOLEAN,
   bin : AppBins, app : Kinds, src : Kinds, pre : Kinds]

\* The start states that differ in something the invocation can read.
Relevant(s, p, d, c) ==
  /\ c.nested => s = "fetchreadme" /\ d = Rel(<<"build">>)
  /\ d = NoDir => ~c.lic /\ ~c.readme /\ ~c.zip /\ c.app = "none" /\ c.pre = "none"
  /\ s = "fetchreadme" =>
       c.licSrc /\ ~c.lic /\ ~c.zip /\ c.app = "none" /\ c.bin = Rel(<<"app.bin">>)
  /\ s = "fetchreadme" \/ p \notin DOMAIN extra_items => c.src = "dir" /\ c.pre = "none"
  /\ c.bin # Rel(<<"app.bin">>) => c.app = "file"
  /\ ~c.licSrc => ~c.lic

Init ==
  \E s \in Scripts, p \in Platforms, d \in DirArgs, c \in Choices :
    /\ Relevant(s, p, d, c)
    /\ script = s
    /\ platform = p
    /\ build_dir = d
    /\ app_bin = c.bin
    /\ zip_name = ZipName
    /\ cwd = InitCwd
    /\ fs = InitFs(d, c)
    /\ fs0 = InitFs(d, c)
    /\ pc = IF s = "fetchreadme" THEN "fr_dir" ELSE "mz_dir"
    /\ outcome = "running"
    /\ raisedAt = "none"
    /\ net = <<>>
    /\ resp = NoResp
    /\ fm = NotCalled
    /\ written = {}

(***************************************************************************)
(* Steps shared by the two scripts                                         *)
(***************************************************************************)
At(p) == Resolve(cwd, p)

Raise(err, at) ==
  /\ pc' = "done"
  /\ outcome' = err
  /\ raisedAt' = at

Finish ==
  /\ pc' = "done"
  /\ outcome' = "ok"
  /\ raisedAt' = "none"

Goto(next) ==
  /\ pc' = next
  /\ UNCHANGED <<outcome, raisedAt>>

args == <<script, platform, build_dir, app_bin, zip_name, fs0>>

\* The call of download_doc: its requests, its strip_frontmatter call and
\* its write become part of the state.
Download(res, r) ==
  /\ fs' = res.fs
  /\ net' = net \o res.net
  /\ fm' = res.fm
  /\ resp' = IF res.net # <<>> THEN r ELSE resp

(***************************************************************************)
(* fetchreadme.py                                                          *)
(***************************************************************************)
FrCheckDir ==
  /\ pc = "fr_dir"
  /\ IF ~isdir(fs, At(build_dir))
       THEN Raise("NotADirectoryError", "dir")
       ELSE Goto("fr_chdir")
  /\ UNCHANGED <<args, cwd, fs, net, resp, fm, written>>

FrChdir ==
  /\ pc = "fr_chdir"
  /\ cwd' = At(build_dir)
  /\ Goto("fr_readme")
  /\ UNCHANGED <<args, fs, net, resp, fm, written>>

\* readme_path is target_dir joined with README.txt, looked up after the
\* chdir; download_doc opens "README.txt" in the working directory.
FrCheckedReadme == path_join(build_dir, README)

FrEnsureReadme(docs) ==
  /\ pc = "fr_readme"
  /\ IF exists(fs, At(FrCheckedReadme))
       THEN Finish /\ UNCHANGED <<fs, net, resp, fm>>
       ELSE \E r \in Responses(docs) :
              LET res == download_doc(platform_docs_fetch, platform, At(README), fs, r)
              IN  /\ Download(res, r)
                  /\ IF res.outcome = "ok" THEN Finish ELSE Raise(res.outcome, "download")
  /\ UNCHANGED <<args, cwd, written>>

(***************************************************************************)
(* makezip.py                                                              *)
(***************************************************************************)
license_path == path_join(build_dir, Rel(<<"LICENSE.txt">>))

app_path == path_join(build_dir, app_bin)

zip_path == path_join(build_dir, zip_name)

readme_path == path_join(build_dir, README)

MzCheckDir ==
  /\ pc = "mz_dir"
  /\ IF ~isdir(fs, At(build_dir))
       THEN Raise("NotADirectoryError", "dir")
       ELSE Goto("mz_license")
  /\ UNCHANGED <<args, cwd, fs, net, resp, fm, written>>

\* LICENSE copied whether or not LICENSE.txt is there.
MzEnsureLicense_always ==
  /\ pc = "mz_license"
  /\ IF ~isfile(fs, At(Rel(<<"LICENSE">>)))
       THEN Raise("FileNotFoundError", "license") /\ UNCHANGED fs
       ELSE /\ fs' = copy(fs, At(Rel(<<"LICENSE">>)), At(license_path))
            /\ Goto("mz_binary")
  /\ UNCHANGED <<args, cwd, net, resp, fm, written>>

MzEnsureLicense ==
  /\ pc = "mz_license"
  /\ IF isfile(fs, At(license_path))
       THEN Goto("mz_binary") /\ UNCHANGED fs
       ELSE IF ~isfile(fs, At(Rel(<<"LICENSE">>)))
         THEN Raise("FileNotFoundError", "license") /\ UNCHANGED fs
         ELSE /\ fs' = copy(fs, At(Rel(<<"LICENSE">>)), At(license_path))
              /\ Goto("mz_binary")
  /\ UNCHANGED <<args, cwd, net, resp, fm, written>>

\* The binary check left out.
MzCheckBinary_unchecked ==
  /\ pc = "mz_binary"
  /\ Goto("mz_stale")
  /\ UNCHANGED <<args, cwd, fs, net, resp, fm, written>>

MzCheckBinary ==
  /\ pc = "mz_binary"
  /\ IF ~isfile(fs, At(app_path))
       THEN Raise("FileNotFoundError", "binary")
       ELSE Goto("mz_stale")
  /\ UNCHANGED <<args, cwd, fs, net, resp, fm, written>>

\* The earlier archive left for ZipFile to overwrite.
MzRemoveStale_left ==
  /\ pc = "mz_stale"
  /\ Goto("mz_readme")
  /\ UNCHANGED <<args, cwd, fs, net, resp, fm, written>>

MzRemoveStale ==
  /\ pc = "mz_stale"
  /\ fs' = IF isfile(fs, At(zip_path)) THEN remove(fs, At(zip_path)) ELSE fs
  /\ Goto("mz_readme")
  /\ UNCHANGED <<args, cwd, net, resp, fm, written>>

MzEnsureReadme(docs) ==
  /\ pc = "mz_readme"
  /\ IF exists(fs, At(readme_path))
       THEN Goto("mz_zip") /\ UNCHANGED <<fs, net, resp, fm>>
       ELSE \E r \in Responses(docs) :
              LET res == download_doc(platform_docs_zip, platform, At(readme_path), fs, r)
              IN  /\ Download(res, r)
                  /\ IF res.outcome = "ok"
                       THEN Goto("mz_zip")
                       ELSE Raise(res.outcome, "download")
  /\ UNCHANGED <<args, cwd, written>>

\* zipfile.ZipFile(zip_path, "w"): the file is created, or truncated.
ZipFile_w(f, p) == Put(f, p, Zip({}))

\* Each write opening the archive anew: earlier entries are lost.
zip_write_anew(f, p, names) == Put(f, p, Zip(names))

\* dist.write(..., arcname=...) for each name of a set.
zip_write(f, p, names) == Put(f, p, Zip(f[p].entries \cup names))

\* The three entries every archive starts with.
BaseEntries == {basename(app_path), basename(license_path), basename(readme_path)}

MzZip ==
  /\ pc = "mz_zip"
  /\ fs' = zip_write(ZipFile_w(fs, At(zip_path)), At(zip_path), BaseEntries)
  /\ written' = BaseEntries
  /\ Goto("mz_extras")
  /\ UNCHANGED <<args, cwd, net, resp, fm>>

\* The arcname of a file os.walk found at absolute location q:
\* os.path.join(os.path.relpath(root, build_dir), file).
WalkArcname(q) ==
  path_join(relpath(cwd, Abs(SubSeq(q, 1, Len(q) - 1)), build_dir), Rel(<<q[Len(q)]>>))

\* One pass of the loop over extra_items[platform]; st is the filesystem, the
\* names written so far and the error raised, if any.
ExtraItem(st, item) ==
  IF st.err # "none" THEN st
  ELSE IF isfile(st.fs, At(item))
    THEN IF isdir(st.fs, CopyTarget(st.fs, At(item), At(build_dir)))
           THEN [st EXCEPT !.err = "IsADirectoryError"]
           ELSE [st EXCEPT !.fs = copy(st.fs, At(item), At(build_dir)),
                           !.names = st.names \cup {basename(item)}]
  ELSE IF isdir(st.fs, At(item))
    THEN LET extra_dir == At(path_join(build_dir, basename(item)))
             made == IF ~exists(st.fs, extra_dir) THEN makedirs(st.fs, extra_dir) ELSE st.fs
             merged == copytree(made, At(item), extra_dir)
         IN  IF isfile(made, extra_dir)
               THEN [st EXCEPT !.err = "FileExistsError"]
               ELSE [st EXCEPT !.fs = merged,
                               !.names = st.names \cup
                                   {WalkArcname(q) : q \in walk_files(merged, extra_dir)}]
  ELSE st

RECURSIVE ExtraItems(_, _)
ExtraItems(st, items) ==
  IF items = <<>> THEN st ELSE ExtraItems(ExtraItem(st, Head(items)), Tail(items))

MzExtras ==
  /\ pc = "mz_extras"
  /\ LET items == IF platform \in DOMAIN extra_items THEN extra_items[platform] ELSE <<>>
         st == ExtraItems([fs |-> fs, names |-> {}, err |-> "none"], items)
     IN  /\ fs' = zip_write(st.fs, At(zip_path), st.names)
         /\ written' = written \cup st.names
         /\ IF st.err = "none" THEN Finish ELSE Raise(st.err, "extras")
  /\ UNCHANGED <<args, cwd, net, resp, fm>>

(***************************************************************************)
(* Specifications                                                          *)
(***************************************************************************)
Next ==
  \/ FrCheckDir
  \/ FrChdir
  \/ FrEnsureReadme(SampleDocs)
  \/ MzCheckDir
  \/ MzEnsureLicense
  \/ MzCheckBinary
  \/ MzRemoveStale
  \/ MzEnsureReadme(SampleDocs)
  \/ MzZip
  \/ MzExtras

Spec == Init /\ [][Next]_vars

\* The invocations of Spec that start in an existing directory and with the
\* files of a normal build, against every document of Docs.
InitDoc ==
  /\ Init
  /\ build_dir \in {Rel(<<"build">>), Abs(<<"repo", "build">>)}
  /\ app_bin = Rel(<<"app.bin">>)
  /\ script = "makezip" =>
       isfile(fs, Resolve(InitCwd, app_path)) /\ isfile(fs, Resolve(InitCwd, license_path))
  /\ ~exists(fs, Resolve(InitCwd, readme_path))
  /\ ~exists(fs, Resolve(InitCwd, zip_path))
  /\ SrcScripts \o <<"a.sh">> \in DOMAIN fs
  /\ ~exists(fs, Resolve(InitCwd, build_dir) \o <<"scripts">>)
  /\ ~exists(fs, Resolve(InitCwd, build_dir) \o <<"build">>)

NextDoc ==
  \/ FrCheckDir
  \/ FrChdir
  \/ FrEnsureReadme(Docs)
  \/ MzCheckDir
  \/ MzEnsureLicense
  \/ MzCheckBinary
  \/ MzRemoveStale
  \/ MzEnsureReadme(Docs)
  \/ MzZip
  \/ MzExtras

SpecDoc == InitDoc /\ [][NextDoc]_vars

(***************************************************************************)
(* Properties                                                              *)
(***************************************************************************)
\* The directory the command line names, and the files of interest in it.
Dest == Resolve(InitCwd, build_dir)

DestReadme == Dest \o <<"README.txt">>

DestLicense == Dest \o <<"LICENSE.txt">>

DestZip == Dest \o zip_name.parts

DestApp == Dest \o app_bin.parts

Done == pc = "done"

Success == script = "makezip" /\ Done /\ outcome = "ok"

SameAt(p) ==
  (p \in DOMAIN fs <=> p \in DOMAIN fs0) /\ (p \in DOMAIN fs => fs[p] = fs0[p])

\* C1: if README.txt exists in the destination directory at the start, then
\* whatever the platform and the form of the directory argument, no network
\* request is made and README.txt keeps its content.
C1_IdempotentFetch ==
  exists(fs0, DestReadme) => net = <<>> /\ SameAt(DestReadme)

\* C2: makezip.py started in an existing build_dir whose binary is not a file
\* ends with a missing-file error, and the archive path is as it was at the
\* start: nothing created there, nothing removed.
C2_MissingBinary ==
  (script = "makezip" /\ isdir(fs0, Dest) /\ ~isfile(fs0, DestApp)) =>
     /\ SameAt(DestZip)
     /\ Done => outcome = "FileNotFoundError"
     /\ pc \in {"mz_dir", "mz_license", "mz_binary", "done"}

C2_Witness ==
  /\ script = "makezip" /\ isdir(fs0, Dest) /\ ~isfile(fs0, DestApp)
  /\ exists(fs0, DestZip)
  /\ Done /\ raisedAt = "binary"

\* C3 as claimed: every invocation with a platform id that is no key of the
\* script's table ends with a ValueError, whatever the directory holds.
C3_UnknownPlatform ==
  (platform \notin DOMAIN platform_docs(script) /\ Done) => outcome = "ValueError"

\* The checks that precede the README step pass.
PassesChecks ==
  /\ isdir(fs0, Dest)
  /\ script = "makezip" =>
       /\ isfile(fs0, DestLicense) \/ isfile(fs0, <<"repo", "LICENSE">>)
       /\ isfile(fs0, DestApp)

\* The script finds README.txt at the path it tests.
ReadmeFound ==
  IF script = "fetchreadme"
    THEN exists(fs0, Resolve(Dest, path_join(build_dir, README)))
    ELSE exists(fs0, DestReadme)

\* C3 amended: with an unknown platform id no request is ever made and no
\* README.txt is written; the invocation ends with a ValueError exactly when
\* it reaches download_doc (the earlier checks pass and no README.txt is
\* found), and ends successfully exactly when README.txt is found, the fetch
\* and its validation being skipped; otherwise an earlier check's error ends it.
C3_Amended ==
  (platform \notin DOMAIN platform_docs(script) /\ Done) =>
     /\ net = <<>>
     /\ SameAt(DestReadme)
     /\ outcome = "ValueError" <=> PassesChecks /\ ~ReadmeFound
     /\ outcome = "ok" <=> PassesChecks /\ ReadmeFound
     /\ outcome \in {"ValueError", "ok", "NotADirectoryError", "FileNotFoundError"}

C3_Witness ==
  /\ platform \notin DOMAIN platform_docs(script) /\ Done
  /\ outcome = "ValueError" /\ raisedAt = "download"

\* The entries every archive holds: binary, licence and readme by base name.
BaseNames ==
  {Rel(<<app_bin.parts[Len(app_bin.parts)]>>), Rel(<<"LICENSE.txt">>), Rel(<<"README.txt">>)}

ItemsOf(p) ==
  IF p \in DOMAIN extra_items
    THEN {extra_items[p][i] : i \in DOMAIN extra_items[p]}
    ELSE {}

ItemName(item) == item.parts[Len(item.parts)]

\* The regular files of filesystem f inside directory d, at any depth.
FilesUnder(f, d) ==
  {q \in DOMAIN f : Len(q) > Len(d) /\ SubSeq(q, 1, Len(d)) = d /\ f[q].kind = "file"}

\* The entries of the registered extra items as the start state has them: a
\* file by its base name, a directory by the files of its tree, each under
\* the directory's base name.
SourceNames ==
  UNION {LET src == Resolve(InitCwd, item)
         IN  IF isfile(fs0, src) THEN {Rel(<<ItemName(item)>>)}
             ELSE {Rel(<<ItemName(item)>> \o Suffix(src, q)) : q \in FilesUnder(fs0, src)}
         : item \in ItemsOf(platform)}

\* The files build_dir already held under the base name of a registered
\* directory, by their path relative to build_dir.
HeldNames ==
  UNION {LET src == Resolve(InitCwd, item)
         IN  IF isdir(fs0, src)
               THEN {Rel(Suffix(Dest, q)) : q \in FilesUnder(fs0, Dest \o <<ItemName(item)>>)}
               ELSE {}
         : item \in ItemsOf(platform)}

\* C4: a build that succeeds over an archive left at build_dir/zip_name ends
\* with exactly the entries this build writes, which are those a build
\* without that archive produces; no entry of the old archive survives.
C4_StaleArchive ==
  (Success /\ isfile(fs0, DestZip)) =>
     /\ fs[DestZip].entries = written
     /\ fs[DestZip].entries = BaseNames \cup SourceNames \cup HeldNames
     /\ Rel(<<"old.txt">>) \notin fs[DestZip].entries

C4_Witness ==
  /\ Success /\ isfile(fs0, DestZip)
  /\ Rel(<<"old.txt">>) \in fs0[DestZip].entries
  /\ platform \in DOMAIN extra_items

\* C5 as claimed: the archive of a successful build holds the three base
\* entries and the files of the registered source items, and nothing else.
C5_ArchiveContent ==
  Success => fs[DestZip].entries = BaseNames \cup SourceNames

\* C5 amended: the archive of a successful build holds the three base
\* entries, a registered file by its base name, and for a registered
\* directory every file found under build_dir/<base name> once the source
\* tree is merged into it: the files of the source tree and the files that
\* directory already held, by their path relative to build_dir.
C5_Amended ==
  Success =>
     /\ isfile(fs, DestZip)
     /\ fs[DestZip].entries = (BaseNames \cup SourceNames) \cup HeldNames

C5_Witness ==
  /\ Success
  /\ Rel(<<"scripts", "stale.sh">>) \in fs[DestZip].entries
  /\ Rel(<<"scripts", "sub", "b.sh">>) \in fs[DestZip].entries
  /\ Len(app_bin.parts) > 1

\* C6: strip_frontmatter returns every document whose first line is not
\* "---" unchanged, and for a document whose first line is "---" and that has
\* a later line "---" it returns the lines after the first such line, joined
\* by newlines.
C6_StripFrontmatter ==
  fm.called =>
     LET lines == splitlines(resp.body)
         closing == {i \in 2..Len(lines) : lines[i] = Delim}
         first == CHOOSE i \in closing : \A k \in closing : i <= k
     IN  /\ ~fm.raised
         /\ (lines = <<>> \/ lines[1] # Delim) => fm.val = resp.body
         /\ (lines # <<>> /\ lines[1] = Delim /\ closing # {}) =>
               fm.val = join(<<"NL">>, SubSeq(lines, first + 1, Len(lines)))

\* download_doc has written README.txt.
Wrote == net # <<>> /\ resp.ok /\ ~fm.raised

\* The document as download_doc holds it when it writes.
Content == IF fm.called THEN fm.val ELSE resp.body

AllWhite(c, from, to) == \A i \in from..to : c[i] \in Whitespace

C8_SameFetch ==
  (net # <<>> /\ platform \in DOMAIN platform_docs_fetch \cap DOMAIN platform_docs_zip) =>
     LET other == IF script = "fetchreadme" THEN platform_docs_zip ELSE platform_docs_fetch
         o == download_doc(other, platform, DestReadme, fs0, resp)
     IN  /\ net = o.net
         /\ exists(fs, DestReadme) <=> exists(o.fs, DestReadme)
         /\ exists(fs, DestReadme) => fs[DestReadme] = o.fs[DestReadme]

\* C9: a build whose README fetch fails (unknown platform, network error)
\* stops there: nothing is at build_dir/zip_name afterwards, an archive left
\* by an earlier build included, and README.txt has not been created.
C9_FetchFailure ==
  (script = "makezip" /\ Done /\ raisedAt = "download"
     /\ outcome \in {"ValueError", "URLError"}) =>
     /\ ~exists(fs, DestZip)
     /\ ~exists(fs, DestReadme)
     /\ ~exists(fs0, DestReadme)

C9_Witness ==
  /\ script = "makezip" /\ Done /\ raisedAt = "download" /\ outcome = "URLError"
  /\ isfile(fs0, DestZip)

\* C10 as claimed: when makezip.py fails on the missing binary, build_dir
\* holds what it held at the start.
C10_Untouched ==
  (script = "makezip" /\ Done /\ raisedAt = "binary") => fs = fs0

\* C10 amended: when makezip.py fails on the missing binary, every file is as
\* it was at the start except LICENSE.txt in build_dir, which exists: as it
\* was if it was there, otherwise as a copy of LICENSE.
C10_Amended ==
  (script = "makezip" /\ Done /\ raisedAt = "binary") =>
     /\ \A p \in (DOMAIN fs \cup DOMAIN fs0) \ {DestLicense} : SameAt(p)
     /\ isfile(fs, DestLicense)
     /\ exists(fs0, DestLicense) => SameAt(DestLicense)
     /\ ~exists(fs0, DestLicense) => fs[DestLicense] = fs0[<<"repo", "LICENSE">>]

C10_Witness ==
  /\ script = "makezip" /\ Done /\ raisedAt = "binary"
  /\ ~exists(fs0, DestLicense)
  /\ exists(fs0, DestZip)

====
